---- MODULE Spec2Model ----
(***************************************************************************)
(* Document lookup/creation and fork creation of                            *)
(* routerlicious/src/alfred/storage.ts, as a state machine over the three   *)
(* systems the module drives: the git ref store (gitManager), the documents *)
(* collection (mongoManager) and the message producer.                      *)
(*                                                                          *)
(* Every await of createFork is a separate step, so calls interleave at     *)
(* exactly the points where the code yields.  A promise that was started    *)
(* and not awaited yet (getContent/upsertRef, insertOne/update) is an        *)
(* operation in flight: it lands, or fails, at any later step, also after   *)
(* the call that started it has already thrown.                              *)
(*                                                                          *)
(* Timestamps (Date.now()) and the externally-owned undefined fields         *)
(* (branchMap, clients, logOffset) carry no behaviour and are left out of    *)
(* the records.                                                              *)
(***************************************************************************)
EXTENDS Integers, Sequences, FiniteSets, TLC

\* ------------------------------------------------------------------ bounds
\* Calls started in one behaviour.
MaxCalls == 2
\* External operations that fail in one behaviour.
MaxFailures == 1
\* Commits another actor pushes onto a document's head in one behaviour.
MaxCommits == 1

\* ------------------------------------------------------------------ values
Procs == {"p1", "p2"}
Tenants == {"t1"}
\* moniker.choose() draws from a finite word list: two names are enough for
\* two distinct forks and for a collision.
Monikers == {"a", "b"}
DocumentIds == {"doc1"} \cup Monikers
\* the documents callers fork, and the documents they look up
Parents == {"doc1"}
Lookups == {"doc1", "a"}
\* null, for strings
Null == "null"
\* let x: number; before its assignment
Unset == -1

\* const StartingSequenceNumber = 0;
MutStartingSequenceNumber == 0 + 1
StartingSequenceNumber == 0

\* Commits of the version store and the ".attributes" blob each one holds
\* (content-addressed, so a sha's blob never changes).  json = FALSE is a
\* blob JSON.parse rejects; c4 holds well-formed JSON whose minimumSequenceNumber
\* is above its sequenceNumber, which nothing in createFork rules out.
Shas == {"c1", "c2", "c3", "c4"}
BlobAt(sha) ==
    CASE sha = "c1" -> [json |-> TRUE, sequenceNumber |-> 2, minimumSequenceNumber |-> 1]
      [] sha = "c2" -> [json |-> TRUE, sequenceNumber |-> 3, minimumSequenceNumber |-> 2]
      [] sha = "c4" -> [json |-> TRUE, sequenceNumber |-> 1, minimumSequenceNumber |-> 2]
      [] OTHER      -> [json |-> FALSE, sequenceNumber |-> Unset, minimumSequenceNumber |-> Unset]

\* the history other writers extend: each commit and the one that follows it
Child(sha) == IF sha = "c1" THEN "c2" ELSE IF sha = "c2" THEN "c3" ELSE "c1"

Key(tenantId, documentId) == <<tenantId, documentId>>
Keys == Tenants \X DocumentIds

VARIABLES
    refs,       \* gitManager of each tenant: ref name -> commit sha, or Null
    docs,       \* documents collection: key -> the records stored under it, in insertion order
    sent,       \* messages handed to producer.send, in order: [key, message]
    proc,       \* the call each process is in, with its locals
    calls,      \* calls started so far
    failures,   \* external operations failed so far
    commits,    \* commits pushed by other actors so far
    forked,     \* createFork calls that returned: [tenantId, id, name]
    created,    \* what each getOrCreateDocument call found, returned and wrote, call after call
    listed      \* what the last getForks found and returned; <<>> before the first

vars == <<refs, docs, sent, proc, calls, failures, commits, forked, created, listed>>

\* ------------------------------------------------------------ store contracts
\* collection.findOne({documentId, tenantId}): the record, or null (<<>>)
FindOne(d, key) == IF d[key] = <<>> THEN <<>> ELSE <<d[key][1]>>

\* collection.insertOne(record): rejected when the key is taken
InsertOne(d, record) ==
    LET key == Key(record.tenantId, record.documentId) IN
    IF d[key] # <<>>
    THEN [ok |-> FALSE, docs |-> d]
    ELSE [ok |-> TRUE, docs |-> [d EXCEPT ![key] = <<record>>]]

\* collection.update(filter, null, {forks: entry}): appends entry to the forks
\* of the record the filter matches; matches nothing when there is none
Update(d, key, entry) ==
    IF d[key] = <<>>
    THEN d
    ELSE [d EXCEPT ![key][1].forks = Append(@, entry)]

\* collection.findOrCreate(key, value): one atomic store operation
FindOrCreate(d, key, value) ==
    IF d[key] # <<>>
    THEN [existing |-> TRUE, value |-> d[key][1], docs |-> d]
    ELSE [existing |-> FALSE, value |-> value, docs |-> [d EXCEPT ![key] = <<value>>]]

\* gitManager.getRef(id): the ref's commit, or null
GetRef(r, tenantId, id) == r[tenantId][id]

\* gitManager.upsertRef(name, sha)
UpsertRef(r, tenantId, name, sha) == [r EXCEPT ![tenantId][name] = sha]

\* ------------------------------------------------------------ storage.ts, data
\* the record getOrCreateObject hands to findOrCreate
MutDefaultDocument(tenantId, documentId) ==
    [documentId |-> documentId, forks |-> <<>>,
     parent |-> <<[documentId |-> documentId, minimumSequenceNumber |-> 0,
                   sequenceNumber |-> 0, tenantId |-> tenantId]>>,
     sequenceNumber |-> 0, tenantId |-> tenantId]
DefaultDocument(tenantId, documentId) ==
    [documentId |-> documentId, forks |-> <<>>, parent |-> <<>>,
     sequenceNumber |-> StartingSequenceNumber, tenantId |-> tenantId]

\* the record createFork hands to insertOne; parent is <<>> for null
MutForkDocument(tenantId, id, name, sequenceNumber, minimumSequenceNumber) ==
    [documentId |-> name, forks |-> <<>>,
     parent |-> <<[documentId |-> id,
                   minimumSequenceNumber |-> sequenceNumber,
                   sequenceNumber |-> minimumSequenceNumber,
                   tenantId |-> tenantId]>>,
     sequenceNumber |-> sequenceNumber, tenantId |-> tenantId]
ForkDocument(tenantId, id, name, sequenceNumber, minimumSequenceNumber) ==
    [documentId |-> name, forks |-> <<>>,
     parent |-> <<[documentId |-> id,
                   minimumSequenceNumber |-> minimumSequenceNumber,
                   sequenceNumber |-> sequenceNumber,
                   tenantId |-> tenantId]>>,
     sequenceNumber |-> sequenceNumber, tenantId |-> tenantId]

\* the entry createFork adds to the parent's forks
ForkEntry(tenantId, name) == [documentId |-> name, tenantId |-> tenantId]

\* api.Fork, the operation type of a fork announcement
Fork == "Fork"

\* sendIntegrateStream's message
MutIdIntegrateMessage(tenantId, id, sequenceNumber, minSequenceNumber, name) ==
    [clientId |-> Null,
     documentId |-> id,
     operation |-> [clientSequenceNumber |-> -1,
                    contents |-> [documentId |-> id,
                                  minSequenceNumber |-> minSequenceNumber,
                                  sequenceNumber |-> sequenceNumber,
                                  tenantId |-> tenantId],
                    referenceSequenceNumber |-> -1,
                    traces |-> <<>>,
                    type |-> Fork],
     tenantId |-> tenantId,
     type |-> "RawOperation",
     user |-> Null]
MutSwapIntegrateMessage(tenantId, id, sequenceNumber, minSequenceNumber, name) ==
    [clientId |-> Null,
     documentId |-> id,
     operation |-> [clientSequenceNumber |-> -1,
                    contents |-> [documentId |-> name,
                                  minSequenceNumber |-> sequenceNumber,
                                  sequenceNumber |-> minSequenceNumber,
                                  tenantId |-> tenantId],
                    referenceSequenceNumber |-> -1,
                    traces |-> <<>>,
                    type |-> Fork],
     tenantId |-> tenantId,
     type |-> "RawOperation",
     user |-> Null]
IntegrateMessage(tenantId, id, sequenceNumber, minSequenceNumber, name) ==
    [clientId |-> Null,
     documentId |-> id,
     operation |-> [clientSequenceNumber |-> -1,
                    contents |-> [documentId |-> name,
                                  minSequenceNumber |-> minSequenceNumber,
                                  sequenceNumber |-> sequenceNumber,
                                  tenantId |-> tenantId],
                    referenceSequenceNumber |-> -1,
                    traces |-> <<>>,
                    type |-> Fork],
     tenantId |-> tenantId,
     type |-> "RawOperation",
     user |-> Null]

\* ------------------------------------------------------------ call frames
NoBlob == [json |-> FALSE, sequenceNumber |-> Unset, minimumSequenceNumber |-> Unset]

Idle ==
    [op |-> "none", pc |-> "idle", tenantId |-> Null, id |-> Null, name |-> Null,
     head |-> Null, attributesContent |-> NoBlob,
     sequenceNumber |-> Unset, minimumSequenceNumber |-> Unset,
     content |-> "none", branch |-> "none", insert |-> "none", update |-> "none",
     error |-> Null, ret |-> <<>>]

InFlight(f) == "pending" \in {f.content, f.branch, f.insert, f.update}

\* a process is free once its last call is over and nothing that call started
\* is still in flight; a new call goes to the first free process
Free(p) == proc[p].pc \in {"idle", "returned", "failed"} /\ ~InFlight(proc[p])
CanStart(p) ==
    /\ calls < MaxCalls
    /\ Free(p)
    /\ p = "p2" => ~Free("p1")

Throw(f, error) == [f EXCEPT !.pc = "failed", !.error = error]

\* an external operation succeeds, or fails while failures are left
Outcomes == IF failures < MaxFailures THEN {TRUE, FALSE} ELSE {TRUE}
Fail(ok) == failures' = IF ok THEN failures ELSE failures + 1

\* ------------------------------------------------------------ Init
\* The stores as a call may find them: doc1 with or without committed history,
\* with or without its record; nothing sent, no call started.
Init ==
    /\ \E head \in Shas \cup {Null} :
          refs = [t \in Tenants |-> [d \in DocumentIds |-> IF d = "doc1" THEN head ELSE Null]]
    /\ \E present \in BOOLEAN :
          docs = [k \in Keys |->
                    IF present /\ k[2] = "doc1"
                    THEN <<DefaultDocument(k[1], k[2])>> ELSE <<>>]
    /\ sent = <<>>
    /\ proc = [p \in Procs |-> Idle]
    /\ calls = 0
    /\ failures = 0
    /\ commits = 0
    /\ forked = {}
    /\ created = <<>>
    /\ listed = <<>>

\* ------------------------------------------------------------ getOrCreateDocument
\* getOrCreateDocument -> getOrCreateObject: one findOrCreate with the default
\* record, its result handed back as it is.  The call touches the store once,
\* so it is one step; what it returned is appended to created.
\* the findOrCreate call of getOrCreateObject: the key, and the default record
MutBlindFindOrCreateDocument(d, tenantId, documentId) ==
    LET value == DefaultDocument(tenantId, documentId)
        key == Key(tenantId, documentId)
    IN [existing |-> FALSE, value |-> value, docs |-> [d EXCEPT ![key] = Append(@, value)]]
MutFreshFindOrCreateDocument(d, tenantId, documentId) ==
    LET r == FindOrCreate(d, Key(tenantId, documentId), DefaultDocument(tenantId, documentId))
    IN [r EXCEPT !.existing = FALSE]
FindOrCreateDocument(d, tenantId, documentId) ==
    FindOrCreate(d, Key(tenantId, documentId), DefaultDocument(tenantId, documentId))

getOrCreateObject(tenantId, documentId) ==
    /\ calls < MaxCalls
    /\ calls' = calls + 1
    /\ \E ok \in Outcomes :
        /\ Fail(ok)
        /\ LET key == Key(tenantId, documentId)
               r == FindOrCreateDocument(docs, tenantId, documentId)
           IN IF ok
              THEN /\ docs' = r.docs
                   /\ created' = Append(created,
                         [tenantId |-> tenantId, documentId |-> documentId,
                          found |-> FindOne(docs, key),
                          existing |-> r.existing, value |-> r.value,
                          writes |-> Len(r.docs[key]) - Len(docs[key])])
              ELSE UNCHANGED <<docs, created>>
    /\ UNCHANGED <<refs, sent, proc, commits, forked, listed>>

\* ------------------------------------------------------------ getForks
\* return document.forks || []; a null document makes document.forks throw
ForksOf(document) ==
    IF document = <<>>
    THEN [threw |-> TRUE, forks |-> <<>>]
    ELSE [threw |-> FALSE, forks |-> document[1].forks]

\* One findOne, so one step; listed keeps what the last call found and gave.
getForks(tenantId, documentId) ==
    /\ calls < MaxCalls
    /\ calls' = calls + 1
    /\ \E ok \in Outcomes :
        /\ Fail(ok)
        /\ LET document == FindOne(docs, Key(tenantId, documentId))
               r == ForksOf(document)
           IN listed' = IF ok
                        THEN <<[tenantId |-> tenantId, documentId |-> documentId,
                                document |-> document, threw |-> r.threw,
                                forks |-> r.forks]>>
                        ELSE listed
    /\ UNCHANGED <<refs, docs, sent, proc, commits, forked, created>>

\* ------------------------------------------------------------ createFork
\* const name = moniker.choose(); const tenant = await tenantManager.getTenant(tenantId);
createFork(p, tenantId, id, name) ==
    /\ CanStart(p)
    /\ calls' = calls + 1
    /\ proc' = [proc EXCEPT ![p] =
                 [Idle EXCEPT !.op = "createFork", !.pc = "getRef",
                              !.tenantId = tenantId, !.id = id, !.name = name]]
    /\ UNCHANGED <<refs, docs, sent, failures, commits, forked, created, listed>>

\* insertOne and update are both issued before the first await on either
IssueWrites(f) == [f EXCEPT !.pc = "writes", !.insert = "pending", !.update = "pending"]

\* the branch on head === null: the starting sequence numbers and straight on to
\* the collection, or getContent and upsertRef issued together
MutResolved(f, head) ==
    [f EXCEPT !.pc = "branch", !.head = IF head = Null THEN "c1" ELSE head,
              !.content = "pending", !.branch = "pending"]
Resolved(f, head) ==
    IF head = Null
    THEN IssueWrites([f EXCEPT !.head = head,
                               !.minimumSequenceNumber = StartingSequenceNumber,
                               !.sequenceNumber = StartingSequenceNumber])
    ELSE [f EXCEPT !.pc = "branch", !.head = head,
                   !.content = "pending", !.branch = "pending"]

\* const head = await gitManager.getRef(id);
MutResolveHead(p) ==
    /\ proc[p].pc = "getRef"
    /\ \E ok \in Outcomes :
        /\ Fail(ok)
        /\ LET f == proc[p] IN
           proc' = [proc EXCEPT ![p] =
              Resolved(f, IF ok THEN GetRef(refs, f.tenantId, f.id) ELSE Null)]
    /\ UNCHANGED <<refs, docs, sent, calls, commits, forked, created, listed>>
ResolveHead(p) ==
    /\ proc[p].pc = "getRef"
    /\ \E ok \in Outcomes :
        /\ Fail(ok)
        /\ LET f == proc[p] IN
           proc' = [proc EXCEPT ![p] =
              IF ok THEN Resolved(f, GetRef(refs, f.tenantId, f.id))
              ELSE Throw(f, "getRef")]
    /\ UNCHANGED <<refs, docs, sent, calls, commits, forked, created, listed>>

\* JSON.parse of the decoded blob, then the two fields as they are
Attributes(f) ==
    IF ~f.attributesContent.json
    THEN Throw(f, "parse")
    ELSE IssueWrites([f EXCEPT
            !.minimumSequenceNumber = f.attributesContent.minimumSequenceNumber,
            !.sequenceNumber = f.attributesContent.sequenceNumber])

\* await Promise.all([attributesContentP, branchP]): throws as soon as one of
\* the two rejects, goes on once both are there
MutJoinBranch(f) ==
    IF f.pc # "branch" THEN f
    ELSE IF f.content = "failed" THEN Throw(f, "getContent")
    ELSE IF f.content = "ok" /\ f.branch \in {"ok", "failed"} THEN Attributes(f)
    ELSE f
JoinBranch(f) ==
    IF f.pc # "branch" THEN f
    ELSE IF f.content = "failed" THEN Throw(f, "getContent")
    ELSE IF f.branch = "failed" THEN Throw(f, "upsertRef")
    ELSE IF f.content = "ok" /\ f.branch = "ok" THEN Attributes(f)
    ELSE f

\* the commit getContent reads and the commit upsertRef points the new ref at:
\* head.object.sha, both times
AttributesSha(r, f) == f.head
MutBranchSha(r, f) == GetRef(r, f.tenantId, f.id)
BranchSha(r, f) == f.head

\* gitManager.getContent(head.object.sha, ".attributes") lands
ReadAttributes(p) ==
    /\ proc[p].content = "pending"
    /\ \E ok \in Outcomes :
        /\ Fail(ok)
        /\ LET f == proc[p] IN
           proc' = [proc EXCEPT ![p] =
              IF ok
              THEN JoinBranch([f EXCEPT !.content = "ok",
                                 !.attributesContent = BlobAt(AttributesSha(refs, f))])
              ELSE JoinBranch([f EXCEPT !.content = "failed"])]
    /\ UNCHANGED <<refs, docs, sent, calls, commits, forked, created, listed>>

\* gitManager.upsertRef(name, head.object.sha) lands
CreateBranch(p) ==
    /\ proc[p].branch = "pending"
    /\ \E ok \in Outcomes :
        /\ Fail(ok)
        /\ refs' = IF ok
                   THEN UpsertRef(refs, proc[p].tenantId, proc[p].name, BranchSha(refs, proc[p]))
                   ELSE refs
        /\ proc' = [proc EXCEPT ![p] =
              JoinBranch([proc[p] EXCEPT !.branch = IF ok THEN "ok" ELSE "failed"])]
    /\ UNCHANGED <<docs, sent, calls, commits, forked, created, listed>>

\* const updateParent = await collection.update(...) throws first; then
\* await Promise.all([insertFork, updateParent]) throws what insertOne threw
MutJoinWrites(f) ==
    IF f.pc # "writes" THEN f
    ELSE IF f.update = "failed" THEN Throw(f, "update")
    ELSE IF f.update = "pending" THEN f
    ELSE [f EXCEPT !.pc = "send"]
JoinWrites(f) ==
    IF f.pc # "writes" THEN f
    ELSE IF f.update = "failed" THEN Throw(f, "update")
    ELSE IF f.update = "pending" THEN f
    ELSE IF f.insert \in {"failed", "duplicate"} THEN Throw(f, f.insert)
    ELSE IF f.insert = "ok" THEN [f EXCEPT !.pc = "send"]
    ELSE f

\* const insertFork = collection.insertOne({... documentId: name, parent: {...}, ...})
MutInsertForkDocument(d, f) ==
    LET record == ForkDocument(f.tenantId, f.id, f.name,
                               f.sequenceNumber, f.minimumSequenceNumber)
    IN [ok |-> TRUE, docs |-> [d EXCEPT ![Key(f.tenantId, f.name)] = <<record>>]]
InsertForkDocument(d, f) ==
    InsertOne(d, ForkDocument(f.tenantId, f.id, f.name,
                              f.sequenceNumber, f.minimumSequenceNumber))

\* collection.insertOne({... documentId: name, parent: {...}, sequenceNumber, tenantId}) lands
InsertFork(p) ==
    /\ proc[p].insert = "pending"
    /\ \E ok \in Outcomes :
        /\ Fail(ok)
        /\ LET f == proc[p]
               r == InsertForkDocument(docs, f)
           IN /\ docs' = IF ok THEN r.docs ELSE docs
              /\ proc' = [proc EXCEPT ![p] =
                    JoinWrites([f EXCEPT
                       !.insert = IF ~ok THEN "failed"
                                  ELSE IF r.ok THEN "ok" ELSE "duplicate"])]
    /\ UNCHANGED <<refs, sent, calls, commits, forked, created, listed>>

\* collection.update({documentId: id, tenantId}, null, {forks: {documentId: name, tenantId}}) lands
UpdateParent(p) ==
    /\ proc[p].update = "pending"
    /\ \E ok \in Outcomes :
        /\ Fail(ok)
        /\ LET f == proc[p] IN
              /\ docs' = IF ok
                         THEN Update(docs, Key(f.tenantId, f.id), ForkEntry(f.tenantId, f.name))
                         ELSE docs
              /\ proc' = [proc EXCEPT ![p] =
                    JoinWrites([f EXCEPT
                       !.update = IF ok THEN "ok" ELSE "failed"])]
    /\ UNCHANGED <<refs, sent, calls, commits, forked, created, listed>>

\* await sendIntegrateStream(tenantId, id, sequenceNumber, minimumSequenceNumber, name, producer);
\* return name;
SendIntegrateStream(p) ==
    /\ proc[p].pc = "send"
    /\ \E ok \in Outcomes :
        /\ Fail(ok)
        /\ LET f == proc[p] IN
           IF ok
           THEN /\ sent' = Append(sent,
                      [key |-> f.id,
                       message |-> IntegrateMessage(f.tenantId, f.id, f.sequenceNumber,
                                                    f.minimumSequenceNumber, f.name)])
                /\ proc' = [proc EXCEPT ![p] = [f EXCEPT !.pc = "returned", !.ret = <<f.name>>]]
                /\ forked' = forked \cup
                      {[tenantId |-> f.tenantId, id |-> f.id, name |-> f.name]}
           ELSE /\ proc' = [proc EXCEPT ![p] = Throw(f, "send")]
                /\ UNCHANGED <<sent, forked>>
    /\ UNCHANGED <<refs, docs, calls, commits, created, listed>>

\* ------------------------------------------------------------ other actors
\* another writer commits a snapshot: the head of a document with history moves
Commit(tenantId, id, sha) ==
    /\ commits < MaxCommits
    /\ refs[tenantId][id] # Null
    /\ sha = Child(refs[tenantId][id])
    /\ refs' = UpsertRef(refs, tenantId, id, sha)
    /\ commits' = commits + 1
    /\ UNCHANGED <<docs, sent, proc, calls, failures, forked, created, listed>>

\* ------------------------------------------------------------ specification
Next ==
    \/ \E t \in Tenants, d \in Lookups : getOrCreateObject(t, d)
    \/ \E t \in Tenants, d \in Lookups : getForks(t, d)
    \/ \E p \in Procs, t \in Tenants, d \in Parents, n \in Monikers : createFork(p, t, d, n)
    \/ \E p \in Procs : ResolveHead(p)
    \/ \E p \in Procs : ReadAttributes(p)
    \/ \E p \in Procs : CreateBranch(p)
    \/ \E p \in Procs : InsertFork(p)
    \/ \E p \in Procs : UpdateParent(p)
    \/ \E p \in Procs : SendIntegrateStream(p)
    \/ \E t \in Tenants, d \in Parents, sha \in Shas : Commit(t, d, sha)

Spec == Init /\ [][Next]_vars

\* ------------------------------------------------------------ reading the state
\* the record stored under a key; read only where there is one
Record(tenantId, documentId) == docs[Key(tenantId, documentId)][1]

\* a field of a record as JavaScript reads it: <<>> stands for undefined
Field(record, name) == IF name \in DOMAIN record THEN <<record[name]>> ELSE <<>>

\* how often a fork id occurs in a forks list
Occurrences(forks, name) == Cardinality({i \in DOMAIN forks : forks[i].documentId = name})

\* the createFork calls in progress or just over
Forking == {p \in Procs : proc[p].op = "createFork"}

\* ------------------------------------------------------------ C1
\* C1: the record a createFork call inserted, when the parent's head existed
\* and its .attributes blob held sequenceNumber S and minimumSequenceNumber M,
\* has parent = {documentId: parent id, tenantId, sequenceNumber: S,
\* minimumSequenceNumber: M}, S and M as the blob at the resolved head has them.
C1_ParentSnapshot ==
    \A p \in Forking :
        LET f == proc[p] IN
        (f.insert = "ok" /\ f.head # Null) =>
            /\ Len(docs[Key(f.tenantId, f.name)]) = 1
            /\ Record(f.tenantId, f.name).parent =
                  <<[documentId |-> f.id,
                     tenantId |-> f.tenantId,
                     sequenceNumber |-> BlobAt(f.head).sequenceNumber,
                     minimumSequenceNumber |-> BlobAt(f.head).minimumSequenceNumber]>>

C1_Witness ==
    \E p \in Forking :
        LET f == proc[p] IN
        /\ f.pc = "returned"
        /\ f.head = "c1"
        /\ Record(f.tenantId, f.name).parent[1].sequenceNumber = 2
        /\ Record(f.tenantId, f.name).parent[1].minimumSequenceNumber = 1

C3_ForkListedOnce ==
    \A e \in forked :
        LET r == ForksOf(FindOne(docs, Key(e.tenantId, e.id))) IN
        /\ ~r.threw
        /\ Occurrences(r.forks, e.name) = 1

\* ------------------------------------------------------------ C4
\* C4: two createFork calls on one parent that overlapped and both returned,
\* with distinct ids, leave both ids in the parent's forks list.
C4_NoLostFork ==
    \A p, q \in Forking :
        LET f == proc[p]
            g == proc[q]
        IN (/\ p # q
            /\ f.pc = "returned" /\ g.pc = "returned"
            /\ f.tenantId = g.tenantId /\ f.id = g.id
            /\ f.name # g.name) =>
              LET r == ForksOf(FindOne(docs, Key(f.tenantId, f.id))) IN
              /\ Occurrences(r.forks, f.name) >= 1
              /\ Occurrences(r.forks, g.name) >= 1

\* ------------------------------------------------------------ C5
\* C5: a createFork call that failed on a malformed .attributes blob has
\* created no ref named after the fork id, inserted no fork record and sent
\* no announcement (any announcement of its fork id is that of a call that
\* returned).
C5_MalformedLeavesNothing ==
    \A p \in Forking :
        LET f == proc[p] IN
        (f.pc = "failed" /\ f.error = "parse") =>
            /\ ~(f.branch = "ok" /\ refs[f.tenantId][f.name] = f.head)
            /\ f.insert = "none"
            /\ \A i \in DOMAIN sent :
                  sent[i].message.operation.contents.documentId = f.name =>
                      \E e \in forked : e.name = f.name

\* ------------------------------------------------------------ C6
\* C6: getForks for a key without a record returns the empty sequence and
\* does not fail.
C6_AbsentGivesEmpty ==
    \A i \in DOMAIN listed :
        listed[i].document = <<>> => (~listed[i].threw /\ listed[i].forks = <<>>)

\* ------------------------------------------------------------ C7
\* C7: within one createFork call the head is resolved once: the ref created
\* for the fork points at the sha getRef returned and the attributes are those
\* of the blob at that sha, whatever the parent's head is by then.
C7_HeadResolvedOnce ==
    [][\A p \in Procs :
          LET f == proc[p]
              g == proc'[p]
          IN /\ (f.pc \in {"branch", "writes", "send"}) => g.head = f.head
             /\ (f.branch = "pending" /\ g.branch = "ok") =>
                    refs'[f.tenantId][f.name] = f.head
             /\ (f.content = "pending" /\ g.content = "ok") =>
                    g.attributesContent = BlobAt(f.head)]_vars

\* the parent's head has moved on while the attributes read is still on its way,
\* and the fork's ref is at the head that was resolved
C7_Witness ==
    \E p \in Forking :
        LET f == proc[p] IN
        /\ f.pc = "branch"
        /\ f.content = "pending"
        /\ f.branch = "ok"
        /\ refs[f.tenantId][f.id] # f.head
        /\ refs[f.tenantId][f.name] = f.head

\* ------------------------------------------------------------ C8
\* C8: a createFork call on a parent without head ref changes no ref: every
\* step of such a call leaves the refs as they were.
C8_NoRefWithoutHead ==
    [][\A p \in Forking :
          (proc'[p] # proc[p] /\ refs[proc[p].tenantId][proc[p].id] = Null) =>
              refs' = refs]_vars

C8_Witness ==
    \E p \in Forking :
        LET f == proc[p] IN
        /\ f.pc = "returned"
        /\ f.head = Null
        /\ refs[f.tenantId][f.id] = Null
        /\ refs[f.tenantId][f.name] = Null
        /\ docs[Key(f.tenantId, f.name)] # <<>>

\* ------------------------------------------------------------ C9
\* the fields C9 compares
Sequencing(record) ==
    <<Field(record, "sequenceNumber"), Field(record, "minimumSequenceNumber"),
      Field(record, "parent")>>

\* C9: of two getOrCreateDocument calls for one key, one after the other, on a
\* store without the record, the first returns existing = false, the second
\* existing = true, and the two records agree in sequenceNumber,
\* minimumSequenceNumber and parent.
C9_IdempotentCreation ==
    \A i, j \in DOMAIN created :
        LET a == created[i]
            b == created[j]
        IN (/\ i < j
            /\ a.tenantId = b.tenantId /\ a.documentId = b.documentId
            /\ a.found = <<>>) =>
              /\ ~a.existing
              /\ b.existing
              /\ Sequencing(a.value) = Sequencing(b.value)

C9_Witness ==
    /\ Len(created) = 2
    /\ created[1].documentId = created[2].documentId
    /\ created[1].found = <<>>
    /\ ~created[1].existing
    /\ created[2].existing

\* ------------------------------------------------------------ C10
\* the same record, but for the forks appended to it in between
SameRecord(a, b) ==
    /\ [a EXCEPT !.forks = <<>>] = [b EXCEPT !.forks = <<>>]
    /\ Len(a.forks) <= Len(b.forks)
    /\ SubSeq(b.forks, 1, Len(a.forks)) = a.forks

\* C10: of the getOrCreateDocument calls that race for one absent key exactly
\* one returns existing = false and all others existing = true, all return the
\* same record, the key has at most one record, and no call wrote more than once.
C10_OneCreation ==
    /\ \A k \in Keys : Len(docs[k]) <= 1
    /\ \A i \in DOMAIN created : created[i].writes <= 1
    /\ \A i \in DOMAIN created : created[i].existing <=> created[i].found # <<>>
    /\ \A i, j \in DOMAIN created :
          (/\ i < j
           /\ created[i].tenantId = created[j].tenantId
           /\ created[i].documentId = created[j].documentId) =>
              /\ created[j].existing
              /\ SameRecord(created[i].value, created[j].value)
              /\ SameRecord(created[j].value,
                            Record(created[j].tenantId, created[j].documentId))

C10_Witness ==
    /\ Len(created) = 2
    /\ created[1].documentId = "a"
    /\ created[2].documentId = "a"
    /\ ~created[1].existing
    /\ created[1].writes = 1
    /\ created[2].existing
    /\ created[2].writes = 0
    /\ Len(docs[Key(created[1].tenantId, "a")]) = 1

C12_Envelope ==
    /\ \A i \in DOMAIN sent :
          LET m == sent[i].message IN
          /\ m.operation.type = Fork
          /\ m.operation.clientSequenceNumber = -1
          /\ m.operation.referenceSequenceNumber = -1
          /\ [tenantId |-> m.tenantId, id |-> m.documentId,
              name |-> m.operation.contents.documentId] \in forked
    /\ \A p \in Forking :
          proc[p].pc = "returned" =>
              \E i \in DOMAIN sent :
                  <<proc[p].name>> = <<sent[i].message.operation.contents.documentId>>
                  /\ proc[p].ret = <<sent[i].message.operation.contents.documentId>>

C12_Witness ==
    \E p \in Forking :
        /\ proc[p].pc = "returned"
        /\ proc[p].ret = <<"a">>
        /\ Len(sent) = 1
        /\ sent[1].message.operation.contents.documentId = "a"
        /\ sent[1].message.operation.type = Fork

\* ------------------------------------------------------------ C13
\* C13: a message createFork sent is keyed by the parent's document id, which
\* is also the envelope's documentId, and carries the sequenceNumber and
\* minSequenceNumber that the fork record's parent snapshot holds.
C13_RoutingAndSequencing ==
    \A i \in DOMAIN sent :
        LET m == sent[i].message
            c == m.operation.contents
            fork == docs[Key(c.tenantId, c.documentId)]
        IN /\ sent[i].key = m.documentId
           /\ m.tenantId = c.tenantId
           /\ Len(fork) = 1
           /\ fork[1].parent = <<[documentId |-> sent[i].key,
                                  tenantId |-> m.tenantId,
                                  sequenceNumber |-> c.sequenceNumber,
                                  minimumSequenceNumber |-> c.minSequenceNumber]>>

C13_Witness ==
    \E i \in DOMAIN sent :
        LET c == sent[i].message.operation.contents IN
        /\ sent[i].key = "doc1"
        /\ c.sequenceNumber = 3
        /\ c.minSequenceNumber = 2
        /\ Record(c.tenantId, c.documentId).parent[1].sequenceNumber = 3

\* ------------------------------------------------------------ C14
\* C14: createFork sends its announcement only once its insertOne and its update
\* have both come back without error, and gives its caller the fork id only in
\* the step that sent the announcement.
C14_Step ==
    /\ sent' # sent =>
          \E p \in Forking :
              /\ proc[p].pc = "send"
              /\ proc[p].insert = "ok"
              /\ proc[p].update = "ok"
              /\ Len(sent') = Len(sent) + 1
              /\ sent'[Len(sent')].message.operation.contents.documentId = proc[p].name
              /\ proc'[p].ret = <<proc[p].name>>
    /\ \A p \in Procs :
          (proc'[p].ret # <<>> /\ proc[p].ret = <<>>) =>
              /\ proc[p].pc = "send"
              /\ Len(sent') = Len(sent) + 1
              /\ sent'[Len(sent')].message.operation.contents.documentId = proc'[p].ret[1]

C14_SendAfterWrites == [][C14_Step]_vars

C14_Witness ==
    \E p \in Forking :
        /\ proc[p].pc = "returned"
        /\ proc[p].insert = "ok"
        /\ proc[p].update = "ok"
        /\ Len(sent) = 1
        /\ docs[Key(proc[p].tenantId, proc[p].name)] # <<>>
        /\ docs[Key(proc[p].tenantId, proc[p].id)] # <<>>
        /\ Occurrences(Record(proc[p].tenantId, proc[p].id).forks, proc[p].name) = 1

\* ------------------------------------------------------------ C15
\* C15: when getRef of the parent fails, createFork throws in that step with
\* nothing issued: refs, records and sent messages are as before, and the call
\* does nothing more.
C15_Step ==
    \A p \in Procs :
        LET f == proc[p]
            g == proc'[p]
        IN /\ (f.pc = "getRef" /\ g # f /\ failures' > failures) =>
                 /\ g.pc = "failed"
                 /\ g.error = "getRef"
                 /\ ~InFlight(g)
                 /\ g.ret = <<>>
                 /\ UNCHANGED <<refs, docs, sent>>
           /\ (f.error = "getRef" /\ g # f) =>
                 /\ g.pc = "getRef"
                 /\ UNCHANGED <<refs, docs, sent>>

C15_FailedResolveLeavesNothing == [][C15_Step]_vars

C15_Witness ==
    \E p \in Forking :
        /\ proc[p].error = "getRef"
        /\ proc[p].pc = "failed"
        /\ sent = <<>>
        /\ \A n \in Monikers : /\ refs[proc[p].tenantId][n] = Null
                               /\ docs[Key(proc[p].tenantId, n)] = <<>>
        /\ docs[Key(proc[p].tenantId, proc[p].id)] # <<>>
        /\ Record(proc[p].tenantId, proc[p].id).forks = <<>>

\* ------------------------------------------------------------ C16
\* C16: a createFork call one of whose external steps failed (getRef,
\* getContent, upsertRef, insertOne with a duplicate id or another error,
\* update, send) never sends, never returns a fork id, and is left failed with
\* the error once nothing of it is in flight.
Failed(f) ==
    \/ f.error \in {"getRef", "getContent", "upsertRef", "failed", "duplicate", "update", "send"}
    \/ "failed" \in {f.content, f.branch, f.insert, f.update}
    \/ f.insert = "duplicate"

C16_Step ==
    \A p \in Procs :
        LET f == proc[p]
            g == proc'[p]
        IN /\ (f.op = "createFork" /\ g # f /\ failures' > failures) => Failed(g)
           /\ Failed(g) =>
                 /\ g.pc \notin {"send", "returned"}
                 /\ g.ret = <<>>
                 /\ ~InFlight(g) => (g.pc = "failed" /\ g.error # Null)
           /\ (Failed(f) /\ g.op = "createFork" /\ g.name = f.name /\ g.pc # "getRef")
                 => Failed(g)

C16_NoFailureSwallowed == [][C16_Step]_vars

C16_Witness ==
    \E p \in Forking :
        /\ proc[p].insert = "duplicate"
        /\ proc[p].update = "ok"
        /\ proc[p].pc = "failed"
        /\ proc[p].error = "duplicate"
        /\ proc[p].ret = <<>>

\* ------------------------------------------------------------ C17
\* C17: once no createFork call is in progress, every entry of a record's forks
\* list names a key with exactly one record, whose parent.documentId is the id
\* of the record that lists it.
C17_ForksAgree ==
    (\A p \in Procs : Free(p)) =>
        \A k \in Keys :
            docs[k] # <<>> =>
                \A i \in DOMAIN docs[k][1].forks :
                    LET e == docs[k][1].forks[i]
                        fork == docs[Key(e.tenantId, e.documentId)]
                    IN /\ Len(fork) = 1
                       /\ fork[1].parent # <<>>
                       /\ fork[1].parent[1].documentId = k[2]

\* ------------------------------------------------------------ C18
\* C18: every stored record has sequenceNumber >= 0 and, where it has a
\* minimumSequenceNumber, sequenceNumber >= minimumSequenceNumber >= 0; every
\* parent snapshot has sequenceNumber >= minimumSequenceNumber >= 0.
C18_SequenceOrder ==
    \A k \in Keys :
        \A i \in DOMAIN docs[k] :
            LET record == docs[k][i] IN
            /\ record.sequenceNumber >= 0
            /\ \A j \in DOMAIN Field(record, "minimumSequenceNumber") :
                  /\ Field(record, "minimumSequenceNumber")[j] >= 0
                  /\ record.sequenceNumber >= Field(record, "minimumSequenceNumber")[j]
            /\ \A j \in DOMAIN record.parent :
                  /\ record.parent[j].minimumSequenceNumber >= 0
                  /\ record.parent[j].sequenceNumber >= record.parent[j].minimumSequenceNumber

\* ------------------------------------------------------------ C19
\* C19: no step changes the parent field of a record that exists, nor any other
\* field of it except forks, and forks changes only by one entry appended.
C19_Step ==
    \A k \in Keys :
        docs[k] # <<>> =>
            /\ Len(docs'[k]) = Len(docs[k])
            /\ LET a == docs[k][1]
                   b == docs'[k][1]
               IN /\ b.parent = a.parent
                  /\ [b EXCEPT !.forks = <<>>] = [a EXCEPT !.forks = <<>>]
                  /\ \/ b.forks = a.forks
                     \/ \E t \in Tenants, n \in Monikers :
                           b.forks = Append(a.forks, ForkEntry(t, n))

C19_ParentImmutable == [][C19_Step]_vars

C19_Witness ==
    /\ docs[Key("t1", "a")] # <<>>
    /\ docs[Key("t1", "b")] # <<>>
    /\ docs[Key("t1", "doc1")] # <<>>
    /\ Record("t1", "a").parent # <<>>
    /\ Record("t1", "b").parent # <<>>
    /\ Record("t1", "a").parent[1].sequenceNumber = 2
    /\ Record("t1", "b").parent[1].sequenceNumber = 3
    /\ Len(Record("t1", "doc1").forks) = 2
    /\ Record("t1", "doc1").parent = <<>>

\* ------------------------------------------------------------ C20
\* C20: a step of a createFork call whose fork id is the id of a fork record
\* that an earlier call inserted leaves the ref of that id where it pointed and
\* adds no entry for that id to the parent's forks list.
C20_Step ==
    \A p \in Forking :
        LET f == proc[p]
            taken == docs[Key(f.tenantId, f.name)]
            parent == Key(f.tenantId, f.id)
        IN (/\ proc'[p] # f
            /\ proc'[p].name = f.name
            /\ f.pc # "returned"
            /\ f.insert # "ok"
            /\ taken # <<>>
            /\ taken[1].parent # <<>>
            /\ \A q \in Forking \ {p} : proc[q].name # f.name) =>
               /\ refs'[f.tenantId][f.name] = refs[f.tenantId][f.name]
               /\ docs[parent] # <<>> =>
                     Occurrences(docs'[parent][1].forks, f.name) =
                         Occurrences(docs[parent][1].forks, f.name)

C20_ExistingUntouched == [][C20_Step]_vars

====
